---- MODULE Spec2Model ----
(***************************************************************************)
(* CommentService (services/comment_service.go): a NATS request/reply      *)
(* dispatcher.  Start() binds four subjects to four handlers with queue    *)
(* subscriptions and launches await(), which blocks on the stop channel    *)
(* and then unsubscribes.  Each handler decodes, validates, calls the      *)
(* repository and responds.                                                *)
(*                                                                         *)
(* The broker client (nats.go) is modelled by what the calls of the        *)
(* service do there: QueueSubscribe fails on a closed connection; the      *)
(* server hands a published message to one member of every queue group     *)
(* (and to every plain subscriber) of its subject; an asynchronous         *)
(* subscription runs its callback on one goroutine, one message at a time, *)
(* from its pending list; Unsubscribe and a connection close mark the      *)
(* subscription closed, after which the delivery goroutine exits without   *)
(* running the messages still pending; msg.Respond fails when the message  *)
(* has no reply subject or the connection is closed.                       *)
(***************************************************************************)
EXTENDS Integers, Sequences, FiniteSets, TLC

(* ------------------------------ bounds -------------------------------- *)
NumInstances == 2
MaxStarts == 2
MaxStops == 2
MaxMsgs == 2
\* The calls made on the system from outside (Start, Stop, a publish, a
\* connection close) in one behaviour.
MaxEvents == 3

Instances == 1..NumInstances
StartIds == 1..MaxStarts
StopIds == 1..MaxStops
MsgIds == 1..MaxMsgs

(* ----------------------- NewCommentService ---------------------------- *)
\* A faulty variant of StopChanCap: a channel buffered for one signal.
StopChanBuffered == 0 + 1
\* stop: make(chan struct{}): an unbuffered channel.
StopChanCap == 0

(* ------------------------------ Start --------------------------------- *)
\* A faulty variant of Bindings: plain Subscribe, no queue group.
BindingsWithoutQueue ==
  << [subject |-> "kiosk.comments.create", queue |-> "", cb |-> "create"],
     [subject |-> "kiosk.comments.load",   queue |-> "", cb |-> "load"],
     [subject |-> "kiosk.comments.update", queue |-> "", cb |-> "update"],
     [subject |-> "kiosk.comments.delete", queue |-> "", cb |-> "delete"] >>

\* A faulty variant of Bindings: update is subscribed on the subject of load.
BindingsSharedSubject ==
  << [subject |-> "kiosk.comments.create", queue |-> "kiosk.comments.create_group", cb |-> "create"],
     [subject |-> "kiosk.comments.load",   queue |-> "kiosk.comments.load_group",   cb |-> "load"],
     [subject |-> "kiosk.comments.load",   queue |-> "kiosk.comments.update_group", cb |-> "update"],
     [subject |-> "kiosk.comments.delete", queue |-> "kiosk.comments.delete_group", cb |-> "delete"] >>

\* The four QueueSubscribe calls of Start(), in the order they are made.
Bindings ==
  << [subject |-> "kiosk.comments.create", queue |-> "kiosk.comments.create_group", cb |-> "create"],
     [subject |-> "kiosk.comments.load",   queue |-> "kiosk.comments.load_group",   cb |-> "load"],
     [subject |-> "kiosk.comments.update", queue |-> "kiosk.comments.update_group", cb |-> "update"],
     [subject |-> "kiosk.comments.delete", queue |-> "kiosk.comments.delete_group", cb |-> "delete"] >>

NumSubs == Len(Bindings)
SubIdx == 1..NumSubs
Subjects == {Bindings[k].subject : k \in SubIdx}

VARIABLES
  connClosed,  \* [Instances -> BOOLEAN]: the instance's natsClient is closed
  startInst,   \* [StartIds -> Instances \cup {0}]: the service a Start() call runs on
  startPc,     \* [StartIds -> {"none","running","ok","err"}]
  attempts,    \* [StartIds -> 0..NumSubs]: QueueSubscribe calls made by the call
  subs,        \* [StartIds -> [SubIdx -> {"none","active","closed"}]]
  awaitPc,     \* [StartIds -> {"none","waiting","unsub","exited"}]
  unsubbed,    \* [StartIds -> 0..NumSubs]: Unsubscribe calls made by await()
  stopInst,    \* [StopIds -> Instances \cup {0}]
  stopPc,      \* [StopIds -> {"none","blocked","returned"}]
  sendq,       \* [Instances -> Seq(StopIds)]: Stop() calls parked on the send
  stopBuf,     \* [Instances -> Nat]: signals buffered in the stop channel
  msgs,        \* Seq of [subject, data, reply]: the messages published so far
  pending,     \* [StartIds -> [SubIdx -> Seq(MsgIds)]]: a subscription's pending list
  handling,    \* [StartIds -> [SubIdx -> MsgIds \cup {0}]]: callback waiting on the repository
  ctx,         \* [StartIds -> [SubIdx -> {"none","live","expired"}]]: that callback's context
  hist,        \* [MsgIds -> record]: what happened to each message
  tickets,     \* Seq of rows: the tickets table, a row's id is its index
  comments,    \* Seq of [ticket_id]: the comments table
  now,         \* the time of the last call of the ticket service
  submitted,   \* Seq of requests: the create request each row came from
  last         \* the last call of the ticket service: its request and response

lifeVars == <<connClosed, startInst, startPc, attempts, subs, awaitPc, unsubbed,
              stopInst, stopPc, sendq, stopBuf>>
msgVars == <<msgs, pending, handling, ctx, hist>>
ticketVars == <<tickets, comments, now, submitted, last>>
svcVars == <<connClosed, startInst, startPc, attempts, subs, awaitPc, unsubbed,
             stopInst, stopPc, sendq, stopBuf, msgs, pending, handling, ctx, hist>>
vars == <<connClosed, startInst, startPc, attempts, subs, awaitPc, unsubbed,
          stopInst, stopPc, sendq, stopBuf, msgs, pending, handling, ctx, hist,
          tickets, comments, now, submitted, last>>

\* delivered: the subscriptions the server handed the message to; beforeStop:
\* no Stop() had been called on their services by then; steps: the steps the
\* callbacks took for it; results: what its repository calls returned;
\* responds: the data of its Respond calls; outbox: the replies published on
\* its reply subject; dropped: why it was discarded unhandled, if it was;
\* timedOut: the deadline of its callback's context passed during the call;
\* concurrent: the callback of another message was in its repository call when
\* Respond was called for it.
NoHist == [delivered |-> {}, beforeStop |-> FALSE, steps |-> <<>>, results |-> <<>>,
           responds |-> <<>>, outbox |-> <<>>, dropped |-> "no", timedOut |-> FALSE,
           concurrent |-> FALSE]

Init ==
  /\ connClosed = [i \in Instances |-> FALSE]
  /\ startInst = [c \in StartIds |-> 0]
  /\ startPc = [c \in StartIds |-> "none"]
  /\ attempts = [c \in StartIds |-> 0]
  /\ subs = [c \in StartIds |-> [k \in SubIdx |-> "none"]]
  /\ awaitPc = [c \in StartIds |-> "none"]
  /\ unsubbed = [c \in StartIds |-> 0]
  /\ stopInst = [s \in StopIds |-> 0]
  /\ stopPc = [s \in StopIds |-> "none"]
  /\ sendq = [i \in Instances |-> <<>>]
  /\ stopBuf = [i \in Instances |-> 0]
  /\ msgs = <<>>
  /\ pending = [c \in StartIds |-> [k \in SubIdx |-> <<>>]]
  /\ handling = [c \in StartIds |-> [k \in SubIdx |-> 0]]
  /\ ctx = [c \in StartIds |-> [k \in SubIdx |-> "none"]]
  /\ hist = [m \in MsgIds |-> NoHist]
  /\ tickets = <<>>
  /\ comments = <<>>
  /\ now = 0
  /\ submitted = <<>>
  /\ last = [op |-> "none"]

\* The calls made from outside so far.
Events ==
  Cardinality({c \in StartIds : startPc[c] # "none"})
  + Cardinality({s \in StopIds : stopPc[s] # "none"})
  + Cardinality({i \in Instances : connClosed[i]})
  + Len(msgs)

\* Service i has been called or its connection closed.  The services are
\* alike before their first call, so they are taken into use in order.
Used(i) ==
  \/ connClosed[i]
  \/ \E c \in StartIds : startInst[c] = i
  \/ \E s \in StopIds : stopInst[s] = i
InOrder(i) == \A j \in Instances : j < i => Used(j)

\* The set of the elements of a sequence.
Range(q) == {q[j] : j \in 1..Len(q)}

\* The messages of the pending list are discarded: the delivery goroutine of a
\* closed subscription exits without calling the callback for them.
DropPending(h, q, why) ==
  [m \in MsgIds |-> IF m \in Range(q) THEN [h[m] EXCEPT !.dropped = why] ELSE h[m]]

\* A faulty variant of QueueSubscribe: Start() goes on after a failed subscription.
QueueSubscribeErrorIgnored(c, i, k) ==
  /\ attempts' = [attempts EXCEPT ![c] = k]
  /\ subs' = IF connClosed[i] THEN subs ELSE [subs EXCEPT ![c][k] = "active"]
  /\ startPc' = [startPc EXCEPT ![c] = IF k = NumSubs THEN "ok" ELSE "running"]
  /\ awaitPc' = [awaitPc EXCEPT ![c] = IF k = NumSubs THEN "waiting" ELSE @]

\* A faulty variant of QueueSubscribe: await() is launched before the error of
\* the subscription is looked at.
QueueSubscribeAwaitsOnError(c, i, k) ==
  /\ attempts' = [attempts EXCEPT ![c] = k]
  /\ IF connClosed[i]
       THEN /\ startPc' = [startPc EXCEPT ![c] = "err"]
            /\ awaitPc' = [awaitPc EXCEPT ![c] = "waiting"]
            /\ UNCHANGED subs
       ELSE /\ subs' = [subs EXCEPT ![c][k] = "active"]
            /\ startPc' = [startPc EXCEPT ![c] = IF k = NumSubs THEN "ok" ELSE "running"]
            /\ awaitPc' = [awaitPc EXCEPT ![c] = IF k = NumSubs THEN "waiting" ELSE @]

\* nc.QueueSubscribe(subject, queue, cb) as the k-th call of Start() call c:
\* an error on a closed connection, else a new active subscription.  After the
\* fourth subscription Start() launches await() and returns nil.
QueueSubscribe(c, i, k) ==
  /\ attempts' = [attempts EXCEPT ![c] = k]
  /\ IF connClosed[i]
       THEN /\ startPc' = [startPc EXCEPT ![c] = "err"]
            /\ UNCHANGED <<subs, awaitPc>>
       ELSE /\ subs' = [subs EXCEPT ![c][k] = "active"]
            /\ startPc' = [startPc EXCEPT ![c] = IF k = NumSubs THEN "ok" ELSE "running"]
            /\ awaitPc' = [awaitPc EXCEPT ![c] = IF k = NumSubs THEN "waiting" ELSE @]

\* Start() is called on service i: the call and its first QueueSubscribe.
Start(i) ==
  \E c \in StartIds :
    /\ Events < MaxEvents
    /\ InOrder(i)
    /\ startPc[c] = "none"
    /\ \A d \in StartIds : d < c => startPc[d] # "none"
    /\ startInst' = [startInst EXCEPT ![c] = i]
    /\ QueueSubscribe(c, i, 1)
    /\ UNCHANGED <<connClosed, unsubbed, stopInst, stopPc, sendq, stopBuf, msgVars, ticketVars>>

\* The next QueueSubscribe of a running Start() call (the load, update and
\* delete subscriptions), then "go s.await(...)" and "return nil".
StartSubscribe(c) ==
  /\ startPc[c] = "running"
  /\ QueueSubscribe(c, startInst[c], attempts[c] + 1)
  /\ UNCHANGED <<connClosed, startInst, unsubbed, stopInst, stopPc, sendq, stopBuf, msgVars, ticketVars>>

(* ------------------------------- Stop --------------------------------- *)
\* s.stop <- struct{}{}: the send completes at once when the channel has room
\* in its buffer, and otherwise parks until a receiver takes the value.
Stop(i) ==
  \E s \in StopIds :
    /\ Events < MaxEvents
    /\ InOrder(i)
    /\ stopPc[s] = "none"
    /\ \A d \in StopIds : d < s => stopPc[d] # "none"
    /\ stopInst' = [stopInst EXCEPT ![s] = i]
    /\ IF stopBuf[i] < StopChanCap
         THEN /\ stopBuf' = [stopBuf EXCEPT ![i] = @ + 1]
              /\ stopPc' = [stopPc EXCEPT ![s] = "returned"]
              /\ UNCHANGED sendq
         ELSE /\ sendq' = [sendq EXCEPT ![i] = Append(@, s)]
              /\ stopPc' = [stopPc EXCEPT ![s] = "blocked"]
              /\ UNCHANGED stopBuf
    /\ UNCHANGED <<connClosed, startInst, startPc, attempts, subs, awaitPc, unsubbed, msgVars, ticketVars>>

(* ------------------------------- await -------------------------------- *)
\* A faulty variant of awaitReceive: the stop channel is closed by Stop(), which
\* wakes every await() task of the service.
awaitReceiveClosed(c) ==
  LET i == startInst[c] IN
  /\ awaitPc[c] = "waiting"
  /\ sendq[i] # <<>>
  /\ awaitPc' = [d \in StartIds |->
                   IF startInst[d] = i /\ awaitPc[d] = "waiting" THEN "unsub" ELSE awaitPc[d]]
  /\ stopPc' = [stopPc EXCEPT ![Head(sendq[i])] = "returned"]
  /\ sendq' = [sendq EXCEPT ![i] = Tail(@)]
  /\ UNCHANGED <<connClosed, startInst, startPc, attempts, subs, unsubbed, stopInst, stopBuf,
                 msgVars, ticketVars>>

\* <-s.stop: takes a buffered signal, or the signal of the first parked
\* sender, whose Stop() then returns.
awaitReceive(c) ==
  LET i == startInst[c] IN
  /\ awaitPc[c] = "waiting"
  /\ stopBuf[i] > 0 \/ sendq[i] # <<>>
  /\ awaitPc' = [awaitPc EXCEPT ![c] = "unsub"]
  /\ IF sendq[i] # <<>>
       THEN /\ stopPc' = [stopPc EXCEPT ![Head(sendq[i])] = "returned"]
            /\ sendq' = [sendq EXCEPT ![i] = Tail(@)]
            /\ UNCHANGED stopBuf
       ELSE /\ stopBuf' = [stopBuf EXCEPT ![i] = @ - 1]
            /\ UNCHANGED <<stopPc, sendq>>
  /\ UNCHANGED <<connClosed, startInst, startPc, attempts, subs, unsubbed, stopInst, msgVars, ticketVars>>

\* A faulty variant of awaitUnsubscribe: only the first subscription is unsubscribed.
awaitUnsubscribeFirstOnly(c) ==
  /\ awaitPc[c] = "unsub"
  /\ unsubbed' = [unsubbed EXCEPT ![c] = 1]
  /\ awaitPc' = [awaitPc EXCEPT ![c] = "exited"]
  /\ IF subs[c][1] = "active"
       THEN /\ subs' = [subs EXCEPT ![c][1] = "closed"]
            /\ pending' = [pending EXCEPT ![c][1] = <<>>]
            /\ hist' = DropPending(hist, pending[c][1], "unsubscribe")
       ELSE UNCHANGED <<subs, pending, hist>>
  /\ UNCHANGED <<connClosed, startInst, startPc, attempts, stopInst, stopPc, sendq, stopBuf,
                 msgs, handling, ctx, ticketVars>>

\* A faulty variant of awaitUnsubscribe: await() was not given the subscriptions,
\* so its loop ends without a call of Unsubscribe.
awaitUnsubscribeSkipped(c) ==
  /\ awaitPc[c] = "unsub"
  /\ unsubbed' = [unsubbed EXCEPT ![c] = NumSubs]
  /\ awaitPc' = [awaitPc EXCEPT ![c] = "exited"]
  /\ UNCHANGED <<connClosed, startInst, startPc, attempts, subs, stopInst, stopPc, sendq,
                 stopBuf, msgVars, ticketVars>>

\* One round of "for _, s := range ss { _ = s.Unsubscribe() }": the
\* subscription is closed and its pending messages are discarded; on a closed
\* connection Unsubscribe returns an error, which is ignored.
awaitUnsubscribe(c) ==
  LET k == unsubbed[c] + 1 IN
  /\ awaitPc[c] = "unsub"
  /\ unsubbed' = [unsubbed EXCEPT ![c] = k]
  /\ awaitPc' = [awaitPc EXCEPT ![c] = IF k = NumSubs THEN "exited" ELSE "unsub"]
  /\ IF subs[c][k] = "active"
       THEN /\ subs' = [subs EXCEPT ![c][k] = "closed"]
            /\ pending' = [pending EXCEPT ![c][k] = <<>>]
            /\ hist' = DropPending(hist, pending[c][k], "unsubscribe")
       ELSE UNCHANGED <<subs, pending, hist>>
  /\ UNCHANGED <<connClosed, startInst, startPc, attempts, stopInst, stopPc, sendq, stopBuf,
                 msgs, handling, ctx, ticketVars>>

(* --------------------------- the connection --------------------------- *)
\* The connection of instance i is closed (by its owner, or lost for good):
\* every subscription on it is closed and its pending messages are discarded.
ConnClose(i) ==
  /\ Events < MaxEvents
  /\ InOrder(i)
  /\ ~connClosed[i]
  /\ connClosed' = [connClosed EXCEPT ![i] = TRUE]
  /\ subs' = [c \in StartIds |-> [k \in SubIdx |->
                IF startInst[c] = i /\ subs[c][k] = "active" THEN "closed" ELSE subs[c][k]]]
  /\ pending' = [c \in StartIds |-> [k \in SubIdx |->
                IF startInst[c] = i THEN <<>> ELSE pending[c][k]]]
  /\ hist' = [m \in MsgIds |->
                IF \E c \in StartIds, k \in SubIdx : startInst[c] = i /\ m \in Range(pending[c][k])
                  THEN [hist[m] EXCEPT !.dropped = "close"] ELSE hist[m]]
  /\ UNCHANGED <<startInst, startPc, attempts, awaitPc, unsubbed, stopInst, stopPc, sendq,
                 stopBuf, msgs, handling, ctx, ticketVars>>

(* ------------------------------ payloads ------------------------------ *)
\* Text is a sequence of characters.
Space == " "
Tab == "\t"
Jibit == <<"J">>
Phone == <<"0">>
Documentation == <<"D">>
Hello == <<"H">>

\* msg.Data: bytes that are not JSON, or a JSON object of the request's shape.
Garbage == [json |-> FALSE]
Json(obj) == [json |-> TRUE, obj |-> obj]

ValidCreate == [issuer |-> Jibit, owner |-> Phone, subject |-> Documentation,
                content |-> Hello, status |-> "NEW"]
Requests(subject) ==
  CASE subject = "kiosk.comments.create" ->
         {ValidCreate, [ValidCreate EXCEPT !.issuer = <<>>, !.owner = <<>>]}
    [] subject = "kiosk.comments.update" ->
         {[id |-> 1, status |-> "RESOLVED"], [id |-> 0, status |-> "NEW"]}
    [] OTHER -> {[id |-> 0], [id |-> 1]}
Payloads(subject) == {Garbage} \cup {Json(r) : r \in Requests(subject)}

\* The bytes a reply carries.
EmptyBytes == ""
Nil == [kind |-> "nil"]
Error(type, code) == [kind |-> "error", type |-> type, code |-> code]
\* errors.InvalidRequestBody()
InvalidRequestBody == Error("invalid_request_body", "invalid_request_body")

\* json.Unmarshal(msg.Data, &request)
Unmarshal(data) ==
  IF data.json THEN [err |-> FALSE, val |-> data.obj] ELSE [err |-> TRUE]

\* json.Marshal(t): nil encodes as the text null, an error as the list of its
\* entries, a response as its object.
Marshal(t) ==
  CASE t.kind = "nil" -> "null"
    [] t.kind = "error" -> "{\"errors\":[{\"code\":\"" \o t.code \o "\"}]}"
    [] t.kind = "comment" -> "{\"id\":" \o ToString(t.id) \o "}"

(* ------------------------------ validators ---------------------------- *)
RECURSIVE TrimLeft(_)
TrimLeft(s) == IF s # <<>> /\ Head(s) \in {Space, Tab} THEN TrimLeft(Tail(s)) ELSE s
\* Whitespace-only text counts as empty.
IsBlank(s) == TrimLeft(s) = <<>>

CreatableStatuses == {"NEW"}
UpdatableStatuses == {"RESOLVED"}

\* A faulty variant of ValidateCreate: the owner is checked before the issuer.
ValidateCreateOwnerFirst(r) ==
  IF r.owner = <<>> THEN Error("invalid_argument", "create_ticket.empty_owner")
  ELSE IF r.issuer = <<>> THEN Error("invalid_argument", "create_ticket.empty_issuer")
  ELSE IF IsBlank(r.subject) THEN Error("invalid_argument", "create_ticket.empty_subject")
  ELSE IF IsBlank(r.content) THEN Error("invalid_argument", "create_ticket.empty_content")
  ELSE IF r.status \notin CreatableStatuses
    THEN Error("invalid_argument", "create_ticket.invalid_status")
  ELSE Nil

\* CreateCommentRequest.Validate(): the first violated rule, in the order
\* issuer, owner, subject, content, status.
ValidateCreate(r) ==
  IF r.issuer = <<>> THEN Error("invalid_argument", "create_ticket.empty_issuer")
  ELSE IF r.owner = <<>> THEN Error("invalid_argument", "create_ticket.empty_owner")
  ELSE IF IsBlank(r.subject) THEN Error("invalid_argument", "create_ticket.empty_subject")
  ELSE IF IsBlank(r.content) THEN Error("invalid_argument", "create_ticket.empty_content")
  ELSE IF r.status \notin CreatableStatuses
    THEN Error("invalid_argument", "create_ticket.invalid_status")
  ELSE Nil

\* A faulty variant of ValidateUpdate: the status is checked before the identifier.
ValidateUpdateStatusFirst(r) ==
  IF r.status \notin UpdatableStatuses
    THEN Error("invalid_argument", "update_ticket.invalid_ticket_status")
  ELSE IF r.id <= 0 THEN Error("invalid_argument", "update_ticket.invalid_id")
  ELSE Nil

\* UpdateCommentRequest.Validate(): the identifier, then the status.
ValidateUpdate(r) ==
  IF r.id <= 0 THEN Error("invalid_argument", "update_ticket.invalid_id")
  ELSE IF r.status \notin UpdatableStatuses
    THEN Error("invalid_argument", "update_ticket.invalid_ticket_status")
  ELSE Nil

\* request.AsComment()
AsComment(r) == r
\* commentResponse.LoadFromComment(c)
LoadFromComment(c) == [kind |-> "comment", id |-> c.id]

(* ------------------------------ repository ---------------------------- *)
\* The results a repository call can return: the storage is an external
\* collaborator, so each call answers with any outcome of its interface while
\* its context cx is live; once the deadline of cx has passed the call is
\* aborted and fails as a storage failure.
Insert(cx, c) ==
  IF cx = "expired" THEN {Error("internal", "create_ticket.failed")}
  ELSE {Nil, Error("internal", "create_ticket.failed")}
LoadByID(cx, id) ==
  IF cx = "expired" THEN {[c |-> Nil, e |-> Error("internal", "read_ticket.failed")]}
  ELSE {[c |-> Nil, e |-> Error("not_found", "read_ticket.not_found")],
        [c |-> Nil, e |-> Error("internal", "read_ticket.failed")]}
       \cup (IF id > 0 THEN {[c |-> [id |-> id], e |-> Nil]} ELSE {})
Update(cx, c) ==
  IF cx = "expired" THEN {Error("internal", "update_ticket.failed")}
  ELSE {Nil, Error("not_found", "update_ticket.not_found"),
        Error("internal", "update_ticket.failed")}
DeleteByID(cx, id) ==
  IF cx = "expired" THEN {Error("internal", "delete_ticket.failed")}
  ELSE {Error("not_found", "delete_ticket.not_found"),
        Error("internal", "delete_ticket.failed")}
       \cup (IF id > 0 THEN {Nil} ELSE {})

(* ------------------------------- broker ------------------------------- *)
ActiveSubs == {t \in StartIds \X SubIdx : subs[t[1]][t[2]] = "active"}
Targets(subject) == {t \in ActiveSubs : Bindings[t[2]].subject = subject}

\* The deliveries the server can make of a message on the subject: every plain
\* subscriber, and one member of each queue group.
Deliveries(subject) ==
  {D \in SUBSET Targets(subject) :
     /\ \A t \in Targets(subject) : Bindings[t[2]].queue = "" => t \in D
     /\ \A t \in Targets(subject) : Bindings[t[2]].queue # "" =>
          Cardinality({u \in D : Bindings[u[2]].queue = Bindings[t[2]].queue}) = 1}

\* The subject has, or had, a subscription of some service.
Known(subject) ==
  \E c \in StartIds, k \in SubIdx : subs[c][k] # "none" /\ Bindings[k].subject = subject

\* A client publishes a request on a subject, with or without a reply subject.
\* A message published on a subject no service ever subscribed to leaves no
\* trace in the services: only the others are recorded, also those that reach
\* nobody because every subscription of the subject has ended.
Publish(subject, data, withReply) ==
  LET m == Len(msgs) + 1 IN
  /\ Events < MaxEvents
  /\ Known(subject)
  /\ m <= MaxMsgs
  /\ msgs' = Append(msgs, [subject |-> subject, data |-> data, reply |-> withReply])
  /\ \E D \in Deliveries(subject) :
       /\ pending' = [c \in StartIds |-> [k \in SubIdx |->
                        IF <<c, k>> \in D THEN Append(pending[c][k], m) ELSE pending[c][k]]]
       /\ hist' = [hist EXCEPT ![m].delivered = D,
                               ![m].beforeStop = \A t \in D : \A s \in StopIds :
                                  stopPc[s] = "none" \/ stopInst[s] # startInst[t[1]]]
  /\ UNCHANGED <<ticketVars, lifeVars, handling, ctx>>

(* ------------------------------ handlers ------------------------------ *)
Step(h, name) == [h EXCEPT !.steps = Append(@, name)]

\* msg.Respond(data) on the connection of instance i: publishes data on the
\* message's reply subject; fails, publishing nothing, when the message has no
\* reply subject or the connection is closed.
Respond(i, m, h, data) ==
  [h EXCEPT !.steps = Append(@, "respond"),
            !.responds = Append(@, data),
            !.outbox = IF msgs[m].reply /\ ~connClosed[i] THEN Append(@, data) ELSE @,
            !.concurrent = \E c \in StartIds, k \in SubIdx : handling[c][k] \notin {0, m}]

\* s.reply(msg, t): the error of Marshal and of Respond are discarded.
reply(i, m, h, t) == Respond(i, m, h, Marshal(t))
\* Faulty variants of replyNoContent: "no content" taken as "no reply"; the nil value
\* encoded instead of zero bytes.
replyNoContentSilent(i, m, h) == h
replyNoContentNull(i, m, h) == Respond(i, m, h, Marshal(Nil))
\* s.replyNoContent(msg)
replyNoContent(i, m, h) == Respond(i, m, h, EmptyBytes)

\* The delivery goroutine of subscription <<c, k>> takes the next pending
\* message and calls the callback the subscription was bound to.
Dispatch(c, k, cb) ==
  /\ Bindings[k].cb = cb
  /\ subs[c][k] = "active"
  /\ handling[c][k] = 0
  /\ pending[c][k] # <<>>
  /\ pending' = [pending EXCEPT ![c][k] = Tail(@)]

\* The callback returns before its repository call: the message's history is
\* h, and the deferred cancel() releases the context it made.
Return(m, h) == hist' = [hist EXCEPT ![m] = h] /\ UNCHANGED <<handling, ctx>>
\* The callback enters its repository call with the context it made on entry:
\* context.WithTimeout(context.Background(), 5*time.Second).
Call(c, k, m, h) ==
  /\ hist' = [hist EXCEPT ![m] = Step(h, "repo")]
  /\ handling' = [handling EXCEPT ![c][k] = m]
  /\ ctx' = [ctx EXCEPT ![c][k] = "live"]
\* The repository call of the callback of <<c, k>> is in flight.
InRepo(c, k, cb) == Bindings[k].cb = cb /\ handling[c][k] # 0
\* The repository call of message m returned r.
Returned(m, r) == [hist[m] EXCEPT !.results = Append(@, r)]
\* A faulty variant of Finish: a failed repository call ends the subscription.
FinishBreaksSubscription(c, k, h) ==
  /\ hist' = [hist EXCEPT ![handling[c][k]] = h]
  /\ handling' = [handling EXCEPT ![c][k] = 0]
  /\ ctx' = [ctx EXCEPT ![c][k] = "none"]
  /\ subs' = IF h.results[Len(h.results)].e.kind # "nil"
               THEN [subs EXCEPT ![c][k] = "closed"] ELSE subs
  /\ UNCHANGED <<connClosed, startInst, startPc, attempts, awaitPc, unsubbed, stopInst,
                 stopPc, sendq, stopBuf, msgs, pending, ticketVars>>

\* A faulty variant of Finish: the message is kept in a field of the service,
\* which a callback that entered later has overwritten: the reply goes out on
\* the reply subject of that other message.
FinishSharedMsg(c, k, h) ==
  LET m == handling[c][k]
      others == {n \in MsgIds : n # m /\ \E d \in StartIds, j \in SubIdx : handling[d][j] = n}
  IN /\ IF h.outbox # hist[m].outbox /\ others # {}
          THEN \E n \in others :
                 hist' = [hist EXCEPT ![m] = [h EXCEPT !.outbox = hist[m].outbox],
                                      ![n].outbox = Append(@, h.responds[Len(h.responds)])]
          ELSE hist' = [hist EXCEPT ![m] = h]
     /\ handling' = [handling EXCEPT ![c][k] = 0]
     /\ ctx' = [ctx EXCEPT ![c][k] = "none"]
     /\ UNCHANGED <<ticketVars, lifeVars, msgs, pending>>

\* The callback returns after its repository call; the deferred cancel()
\* releases its context.
Finish(c, k, h) ==
  /\ hist' = [hist EXCEPT ![handling[c][k]] = h]
  /\ handling' = [handling EXCEPT ![c][k] = 0]
  /\ ctx' = [ctx EXCEPT ![c][k] = "none"]
  /\ UNCHANGED <<ticketVars, lifeVars, msgs, pending>>

\* A faulty variant of create: a message nobody waits on is not worth the work,
\* the callback returns at once when msg.Reply is empty.
createNeedsReply(c, k) ==
  /\ Dispatch(c, k, "create")
  /\ LET m == Head(pending[c][k])
         i == startInst[c]
         createCommentRequest == Unmarshal(msgs[m].data)
         h == Step(hist[m], "decode")
     IN IF ~msgs[m].reply
          THEN Return(m, hist[m])
          ELSE IF createCommentRequest.err
            THEN Return(m, reply(i, m, h, InvalidRequestBody))
            ELSE LET e == ValidateCreate(createCommentRequest.val) IN
                 IF e.kind # "nil"
                   THEN Return(m, reply(i, m, Step(h, "validate"), e))
                   ELSE Call(c, k, m, Step(h, "validate"))
  /\ UNCHANGED <<ticketVars, lifeVars, msgs>>

\* create, up to the call of commentRepository.Insert.
create(c, k) ==
  /\ Dispatch(c, k, "create")
  /\ LET m == Head(pending[c][k])
         i == startInst[c]
         createCommentRequest == Unmarshal(msgs[m].data)
         h == Step(hist[m], "decode")
     IN IF createCommentRequest.err
          THEN Return(m, reply(i, m, h, InvalidRequestBody))
          ELSE LET e == ValidateCreate(createCommentRequest.val) IN
               IF e.kind # "nil"
                 THEN Return(m, reply(i, m, Step(h, "validate"), e))
                 ELSE Call(c, k, m, Step(h, "validate"))
  /\ UNCHANGED <<ticketVars, lifeVars, msgs>>

\* create, from the return of commentRepository.Insert.
createReply(c, k) ==
  /\ InRepo(c, k, "create")
  /\ LET m == handling[c][k]
         i == startInst[c]
     IN \E e \in Insert(ctx[c][k], AsComment(Unmarshal(msgs[m].data).val)) :
          IF e.kind # "nil"
            THEN Finish(c, k, reply(i, m, Returned(m, [c |-> Nil, e |-> e]), e))
            ELSE Finish(c, k, replyNoContent(i, m, Returned(m, [c |-> Nil, e |-> e])))

\* A faulty variant of load: the error of Unmarshal is not checked.
loadUncheckedDecode(c, k) ==
  /\ Dispatch(c, k, "load")
  /\ Call(c, k, Head(pending[c][k]), Step(hist[Head(pending[c][k])], "decode"))
  /\ UNCHANGED <<ticketVars, lifeVars, msgs>>

\* load, up to the call of commentRepository.LoadByID.
load(c, k) ==
  /\ Dispatch(c, k, "load")
  /\ LET m == Head(pending[c][k])
         i == startInst[c]
         id == Unmarshal(msgs[m].data)
         h == Step(hist[m], "decode")
     IN IF id.err
          THEN Return(m, reply(i, m, h, InvalidRequestBody))
          ELSE Call(c, k, m, h)
  /\ UNCHANGED <<ticketVars, lifeVars, msgs>>

\* load, from the return of commentRepository.LoadByID.
loadReply(c, k) ==
  /\ InRepo(c, k, "load")
  /\ LET m == handling[c][k]
         i == startInst[c]
     IN \E r \in LoadByID(ctx[c][k], Unmarshal(msgs[m].data).val.id) :
          IF r.e.kind # "nil"
            THEN Finish(c, k, reply(i, m, Returned(m, r), r.e))
            ELSE Finish(c, k, reply(i, m, Returned(m, r), LoadFromComment(r.c)))

\* A faulty variant of update: Validate() is not called.
updateWithoutValidate(c, k) ==
  /\ Dispatch(c, k, "update")
  /\ LET m == Head(pending[c][k])
         h == Step(hist[m], "decode")
     IN IF Unmarshal(msgs[m].data).err
          THEN Return(m, reply(startInst[c], m, h, InvalidRequestBody))
          ELSE Call(c, k, m, h)
  /\ UNCHANGED <<ticketVars, lifeVars, msgs>>

\* update, up to the call of commentRepository.Update.
update(c, k) ==
  /\ Dispatch(c, k, "update")
  /\ LET m == Head(pending[c][k])
         i == startInst[c]
         updateCommentRequest == Unmarshal(msgs[m].data)
         h == Step(hist[m], "decode")
     IN IF updateCommentRequest.err
          THEN Return(m, reply(i, m, h, InvalidRequestBody))
          ELSE LET e == ValidateUpdate(updateCommentRequest.val) IN
               IF e.kind # "nil"
                 THEN Return(m, reply(i, m, Step(h, "validate"), e))
                 ELSE Call(c, k, m, Step(h, "validate"))
  /\ UNCHANGED <<ticketVars, lifeVars, msgs>>

\* A faulty variant of updateReply: the error of Update is not checked.
updateReplyIgnoresError(c, k) ==
  /\ InRepo(c, k, "update")
  /\ \E e \in Update(ctx[c][k], AsComment(Unmarshal(msgs[handling[c][k]].data).val)) :
       Finish(c, k, replyNoContent(startInst[c], handling[c][k],
                                   Returned(handling[c][k], [c |-> Nil, e |-> e])))

\* A faulty variant of updateReply: a failed Update is tried once more.
updateReplyRetries(c, k) ==
  /\ InRepo(c, k, "update")
  /\ LET m == handling[c][k]
         i == startInst[c]
     IN \E e \in Update(ctx[c][k], AsComment(Unmarshal(msgs[m].data).val)) :
          IF e.kind # "nil" /\ hist[m].results = <<>>
            THEN /\ hist' = [hist EXCEPT ![m] = Step(Returned(m, [c |-> Nil, e |-> e]), "repo")]
                 /\ UNCHANGED <<ticketVars, lifeVars, msgs, pending, handling, ctx>>
            ELSE IF e.kind # "nil"
              THEN Finish(c, k, reply(i, m, Returned(m, [c |-> Nil, e |-> e]), e))
              ELSE Finish(c, k, replyNoContent(i, m, Returned(m, [c |-> Nil, e |-> e])))

\* update, from the return of commentRepository.Update.
updateReply(c, k) ==
  /\ InRepo(c, k, "update")
  /\ LET m == handling[c][k]
         i == startInst[c]
     IN \E e \in Update(ctx[c][k], AsComment(Unmarshal(msgs[m].data).val)) :
          IF e.kind # "nil"
            THEN Finish(c, k, reply(i, m, Returned(m, [c |-> Nil, e |-> e]), e))
            ELSE Finish(c, k, replyNoContent(i, m, Returned(m, [c |-> Nil, e |-> e])))

\* delete, up to the call of commentRepository.DeleteByID.
delete(c, k) ==
  /\ Dispatch(c, k, "delete")
  /\ LET m == Head(pending[c][k])
         i == startInst[c]
         id == Unmarshal(msgs[m].data)
         h == Step(hist[m], "decode")
     IN IF id.err
          THEN Return(m, reply(i, m, h, InvalidRequestBody))
          ELSE Call(c, k, m, h)
  /\ UNCHANGED <<ticketVars, lifeVars, msgs>>

\* delete, from the return of commentRepository.DeleteByID.
deleteReply(c, k) ==
  /\ InRepo(c, k, "delete")
  /\ LET m == handling[c][k]
         i == startInst[c]
     IN \E e \in DeleteByID(ctx[c][k], Unmarshal(msgs[m].data).val.id) :
          IF e.kind # "nil"
            THEN Finish(c, k, reply(i, m, Returned(m, [c |-> Nil, e |-> e]), e))
            ELSE Finish(c, k, replyNoContent(i, m, Returned(m, [c |-> Nil, e |-> e])))

(* ------------------------------ deadline ------------------------------ *)
\* A faulty variant of DeadlineExceeded: a context made without a deadline.
DeadlineNever(c, k) ==
  /\ FALSE
  /\ UNCHANGED vars

\* A faulty variant of DeadlineExceeded: one context shared by the callbacks.
DeadlineShared(c, k) ==
  /\ ctx[c][k] = "live"
  /\ ctx' = [d \in StartIds |-> [j \in SubIdx |->
               IF ctx[d][j] = "live" THEN "expired" ELSE ctx[d][j]]]
  /\ hist' = [hist EXCEPT ![handling[c][k]].timedOut = TRUE]
  /\ UNCHANGED <<ticketVars, lifeVars, msgs, pending, handling>>

\* The timer of context.WithTimeout fires while the callback of <<c, k>> is in
\* its repository call: that context, and no other, is done.
DeadlineExceeded(c, k) ==
  /\ ctx[c][k] = "live"
  /\ ctx' = [ctx EXCEPT ![c][k] = "expired"]
  /\ hist' = [hist EXCEPT ![handling[c][k]].timedOut = TRUE]
  /\ UNCHANGED <<ticketVars, lifeVars, msgs, pending, handling>>

\* The repository call of <<c, k>> returns after its deadline has passed.
Aborted(c, k) ==
  /\ ctx[c][k] = "expired"
  /\ createReply(c, k) \/ loadReply(c, k) \/ updateReply(c, k) \/ deleteReply(c, k)

Next ==
  \/ \E subject \in Subjects, withReply \in BOOLEAN :
       \E data \in Payloads(subject) : Publish(subject, data, withReply)
  \/ \E c \in StartIds, k \in SubIdx : create(c, k)
  \/ \E c \in StartIds, k \in SubIdx : createReply(c, k)
  \/ \E c \in StartIds, k \in SubIdx : load(c, k)
  \/ \E c \in StartIds, k \in SubIdx : loadReply(c, k)
  \/ \E c \in StartIds, k \in SubIdx : update(c, k)
  \/ \E c \in StartIds, k \in SubIdx : updateReply(c, k)
  \/ \E c \in StartIds, k \in SubIdx : delete(c, k)
  \/ \E c \in StartIds, k \in SubIdx : deleteReply(c, k)
  \/ \E c \in StartIds, k \in SubIdx : DeadlineExceeded(c, k)
  \/ \E i \in Instances : Start(i)
  \/ \E c \in StartIds : StartSubscribe(c)
  \/ \E i \in Instances : Stop(i)
  \/ \E c \in StartIds : awaitReceive(c)
  \/ \E c \in StartIds : awaitUnsubscribe(c)
  \/ \E i \in Instances : ConnClose(i)

Spec == Init /\ [][Next]_vars

\* The goroutine of await() is scheduled whenever it can run; the timer of a
\* context fires when its five seconds have passed, and the repository call
\* returns once its context is done.  A repository call whose context is live
\* may stay unanswered.
FairSpec ==
  /\ Spec
  /\ \A c \in StartIds : WF_vars(awaitReceive(c)) /\ WF_vars(awaitUnsubscribe(c))
  /\ \A c \in StartIds, k \in SubIdx :
       WF_vars(DeadlineExceeded(c, k)) /\ WF_vars(Aborted(c, k))

(* --------------------------- TicketService ---------------------------- *)
\* The ticket service the tests of part_000 drive: Create, Read and Update on
\* the tickets table, one call at a time, each at a later time than the last.
MaxTickets == 2
MaxComments == 1
MaxCalls == 3

Meta == <<"M">>
\* rpc.Ticket values passed to Create: every field present or missing (a
\* missing text is the empty text), subject and content also whitespace only.
CreateTickets ==
  {t \in [issuer : {<<>>, Jibit}, owner : {<<>>, Phone},
          subject : {<<>>, <<Space>>, Documentation},
          content : {<<>>, <<Tab>>, Hello},
          metadata : {<<>>, Meta}, importance : {"LOW", "HIGH"},
          status : {"NEW", "RESOLVED"}] :
     t.metadata = <<>> <=> t.importance = "LOW"}
\* rpc.Ticket values passed to Update, and rpc.Id values passed to Read: the
\* identifier zero, those of the rows there can be, and one beyond.
TicketIds == 0..(MaxTickets + 1)
UpdateTickets == [id : TicketIds, status : {"NEW", "RESOLVED"}]

\* The row a ticket is stored as at time at.
AsTicket(t, at) ==
  [issuer |-> t.issuer, owner |-> t.owner, subject |-> t.subject, content |-> t.content,
   metadata |-> t.metadata, importance |-> t.importance, status |-> t.status,
   issuedAt |-> at, updatedAt |-> at]
\* The comments of ticket id, in the order of the table.
CommentsOf(cs, id) == SelectSeq(cs, LAMBDA c : c.ticket_id = id)
\* A faulty variant of LoadFromTicket: the metadata column is not read.
LoadFromTicketWithoutMetadata(id, row, cs) ==
  [kind |-> "ticket", id |-> id, issuer |-> row.issuer, owner |-> row.owner,
   subject |-> row.subject, content |-> row.content, metadata |-> <<>>,
   importance |-> row.importance, status |-> row.status, comments |-> CommentsOf(cs, id),
   issuedAt |-> row.issuedAt, updatedAt |-> row.updatedAt]
\* The rpc.Ticket a row is read as, with its comments attached.
LoadFromTicket(id, row, cs) ==
  [kind |-> "ticket", id |-> id, issuer |-> row.issuer, owner |-> row.owner,
   subject |-> row.subject, content |-> row.content, metadata |-> row.metadata,
   importance |-> row.importance, status |-> row.status, comments |-> CommentsOf(cs, id),
   issuedAt |-> row.issuedAt, updatedAt |-> row.updatedAt]
\* Read validates only the identifier.
ValidateId(id) ==
  IF id <= 0 THEN Error("invalid_argument", "read_ticket.invalid_id") ELSE Nil

\* The record of a call: repo tells whether the repository was called.
Called(op, req, res, repo) == [op |-> op, req |-> req, res |-> res, repo |-> repo]

\* service.Create(ctx, ticket)
TicketCreate(ticket) ==
  /\ now < MaxCalls
  /\ now' = now + 1
  /\ LET e == ValidateCreate(ticket) IN
     IF e.kind # "nil"
       THEN /\ last' = Called("Create", ticket, e, FALSE)
            /\ UNCHANGED <<tickets, submitted>>
       ELSE \/ /\ Len(tickets) < MaxTickets
               /\ tickets' = Append(tickets, AsTicket(ticket, now + 1))
               /\ submitted' = Append(submitted, ticket)
               /\ last' = Called("Create", ticket, Nil, TRUE)
            \/ /\ last' = Called("Create", ticket,
                                 Error("internal", "create_ticket.failed"), TRUE)
               /\ UNCHANGED <<tickets, submitted>>
  /\ UNCHANGED <<comments, svcVars>>

\* service.Read(ctx, id)
TicketRead(id) ==
  /\ now < MaxCalls
  /\ now' = now + 1
  /\ LET e == ValidateId(id) IN
     IF e.kind # "nil"
       THEN last' = Called("Read", [id |-> id], e, FALSE)
       ELSE \/ /\ id \in 1..Len(tickets)
               /\ last' = Called("Read", [id |-> id],
                                 LoadFromTicket(id, tickets[id], comments), TRUE)
            \/ /\ id \notin 1..Len(tickets)
               /\ last' = Called("Read", [id |-> id],
                                 Error("not_found", "read_ticket.not_found"), TRUE)
            \/ last' = Called("Read", [id |-> id],
                              Error("internal", "read_ticket.failed"), TRUE)
  /\ UNCHANGED <<tickets, comments, submitted, svcVars>>

\* A faulty variant of Refresh: the updated_at column keeps its value.
RefreshStatusOnly(row, status, at) == [row EXCEPT !.status = status]
\* The row after an update at time at: the new status, updated_at refreshed.
Refresh(row, status, at) == [row EXCEPT !.status = status, !.updatedAt = at]

\* service.Update(ctx, ticket)
TicketUpdate(ticket) ==
  /\ now < MaxCalls
  /\ now' = now + 1
  /\ LET e == ValidateUpdate(ticket) IN
     IF e.kind # "nil"
       THEN /\ last' = Called("Update", ticket, e, FALSE)
            /\ UNCHANGED tickets
       ELSE \/ /\ ticket.id \in 1..Len(tickets)
               /\ tickets' = [tickets EXCEPT
                                ![ticket.id] = Refresh(@, ticket.status, now + 1)]
               /\ last' = Called("Update", ticket, Nil, TRUE)
            \/ /\ ticket.id \notin 1..Len(tickets)
               /\ last' = Called("Update", ticket,
                                 Error("not_found", "update_ticket.not_found"), TRUE)
               /\ UNCHANGED tickets
            \/ /\ last' = Called("Update", ticket,
                                 Error("internal", "update_ticket.failed"), TRUE)
               /\ UNCHANGED tickets
  /\ UNCHANGED <<comments, submitted, svcVars>>

\* A comment is stored for ticket id (the comments table references tickets).
CommentInsert(id) ==
  /\ now < MaxCalls
  /\ now' = now + 1
  /\ Len(comments) < MaxComments
  /\ id \in 1..Len(tickets)
  /\ comments' = Append(comments, [ticket_id |-> id])
  /\ last' = Called("Insert", [ticket_id |-> id], Nil, TRUE)
  /\ UNCHANGED <<tickets, submitted, svcVars>>

TicketNext ==
  \/ \E ticket \in CreateTickets : TicketCreate(ticket)
  \/ \E id \in TicketIds : TicketRead(id)
  \/ \E ticket \in UpdateTickets : TicketUpdate(ticket)
  \/ \E id \in TicketIds : CommentInsert(id)

TicketSpec == Init /\ [][TicketNext]_vars

(* ------------------------------- claims ------------------------------- *)
Published == 1..Len(msgs)
InFlight(m) == \E c \in StartIds, k \in SubIdx : handling[c][k] = m
\* The callback has run for m and returned.
Handled(m) == hist[m].steps # <<>> /\ ~InFlight(m)
Count(q, x) == Cardinality({j \in 1..Len(q) : q[j] = x})
\* The connection of every subscription that got m is open.
ConnOpenFor(m) == \A t \in hist[m].delivered : ~connClosed[startInst[t[1]]]
IsLoad(m) == msgs[m].subject = "kiosk.comments.load"
IsIdRequest(m) == msgs[m].subject \in {"kiosk.comments.load", "kiosk.comments.delete"}
\* The validation failure of a decoded create or update request, or Nil.
Validation(m) ==
  IF msgs[m].subject = "kiosk.comments.create"
    THEN ValidateCreate(msgs[m].data.obj) ELSE ValidateUpdate(msgs[m].data.obj)

\* C1 as stated: every handled message has exactly one reply published, on
\* every path.
C1_ExactlyOneReplyPublished ==
  \A m \in Published : Handled(m) => Len(hist[m].outbox) = 1

\* C1 amended: every handled message has exactly one Respond call, on every
\* path, and never two replies; the call publishes exactly one reply when the
\* message carries a reply subject and the connection is open, and none when
\* the message carries no reply subject.
C1_OneRespondPerMessage ==
  \A m \in Published :
    /\ Len(hist[m].responds) <= 1
    /\ Len(hist[m].outbox) <= 1
    /\ Handled(m) =>
         /\ Len(hist[m].responds) = 1
         /\ msgs[m].reply /\ ConnOpenFor(m) => hist[m].outbox = hist[m].responds
         /\ ~msgs[m].reply => hist[m].outbox = <<>>

\* Two handled messages with a reply each: one refused at decode, one answered
\* after its repository call.
C1_Witness ==
  \E m, n \in Published :
    /\ Handled(m) /\ hist[m].steps = <<"decode", "respond">> /\ Len(hist[m].outbox) = 1
    /\ Handled(n) /\ "repo" \in Range(hist[n].steps) /\ Len(hist[n].outbox) = 1

\* C2: a payload that cannot be decoded is answered with the invalid-request-
\* body error by each of the four handlers, and the repository is not called
\* for it.
C2_MalformedNeverReachesRepository ==
  \A m \in Published :
    ~msgs[m].data.json =>
      /\ "repo" \notin Range(hist[m].steps)
      /\ hist[m].results = <<>>
      /\ Handled(m) => hist[m].responds = <<Marshal(InvalidRequestBody)>>

C2_Witness ==
  \E m, n \in Published :
    /\ msgs[m].subject # msgs[n].subject
    /\ Handled(m) /\ ~msgs[m].data.json /\ Len(hist[m].outbox) = 1
    /\ Handled(n) /\ ~msgs[n].data.json /\ Len(hist[n].outbox) = 1

\* C3: for create and update the repository is invoked only after decode and
\* Validate both succeeded; a request Validate rejects is answered with the
\* validator's error and the repository is not invoked for it.
C3_ValidateGuardsRepository ==
  \A m \in Published :
    ~IsIdRequest(m) =>
      /\ "repo" \in Range(hist[m].steps) =>
           msgs[m].data.json /\ Validation(m).kind = "nil"
      /\ msgs[m].data.json /\ Validation(m).kind # "nil" /\ Handled(m) =>
           hist[m].responds = <<Marshal(Validation(m))>> /\ hist[m].results = <<>>

C3_Witness ==
  \E m, n \in Published :
    /\ msgs[m].subject = "kiosk.comments.create" /\ msgs[n].subject = "kiosk.comments.update"
    /\ Handled(m) /\ msgs[m].data.json /\ Validation(m).kind # "nil"
    /\ Handled(n) /\ msgs[n].data.json /\ Validation(n).kind # "nil"

\* C4 as stated: a load or delete request whose identifier is not positive is
\* answered with an invalid-argument error and the repository is not called
\* for it.
C4_NonPositiveIdRejected ==
  \A m \in Published :
    IsIdRequest(m) /\ msgs[m].data.json /\ msgs[m].data.obj.id <= 0 =>
      /\ "repo" \notin Range(hist[m].steps)
      /\ Handled(m) =>
           hist[m].responds =
             <<Marshal(Error("invalid_argument",
                             IF IsLoad(m) THEN "read_ticket.invalid_id"
                                          ELSE "delete_ticket.invalid_id"))>>

\* C5: on success create, update and delete answer with zero bytes (not the
\* text null) and load answers with the encoding of the entity the repository
\* returned; a success reply is never an error payload.
C5_SuccessPayload ==
  \A m \in Published :
    Handled(m) /\ Len(hist[m].results) = 1 /\ hist[m].results[1].e.kind = "nil" =>
      /\ Len(hist[m].responds) = 1
      /\ IsLoad(m) => hist[m].responds[1] = Marshal(LoadFromComment(hist[m].results[1].c))
      /\ ~IsLoad(m) => hist[m].responds[1] = ""
      /\ \A e \in Insert("live", Nil) \cup Update("live", Nil) \cup DeleteByID("live", 0)
                \cup {InvalidRequestBody} :
           e.kind = "error" => hist[m].responds[1] # Marshal(e)

C5_Witness ==
  \E m, n \in Published :
    /\ IsLoad(m) /\ ~IsLoad(n)
    /\ Handled(m) /\ Len(hist[m].results) = 1 /\ hist[m].results[1].e.kind = "nil"
    /\ Handled(n) /\ Len(hist[n].results) = 1 /\ hist[n].results[1].e.kind = "nil"
    /\ Len(hist[m].outbox) = 1 /\ Len(hist[n].outbox) = 1

\* C6: with several instances subscribed, a message published on a subject is
\* handed to the handler of exactly one of them (to none only when the subject
\* has no active subscription left), and its repository operation runs at
\* most once.
C6_ExactlyOneInstanceReceives ==
  /\ [](\A m \in Published :
          /\ Cardinality(hist[m].delivered) <= 1
          /\ Count(hist[m].steps, "decode") <= 1
          /\ Count(hist[m].steps, "repo") <= 1)
  /\ [][\A subject \in Subjects :
          msgs' # msgs /\ msgs'[Len(msgs')].subject = subject =>
            Cardinality(hist'[Len(msgs')].delivered) =
              IF Targets(subject) # {} THEN 1 ELSE 0]_vars

\* Two instances have completed Start() and a message published after that was
\* handled.
C6_Witness ==
  \E c, d \in StartIds, m \in Published :
    /\ startInst[c] # startInst[d] /\ startPc[c] = "ok" /\ startPc[d] = "ok"
    /\ Handled(m)
    /\ Cardinality({t \in StartIds \X SubIdx : Bindings[t[2]].subject = msgs[m].subject
                                               /\ subs[t[1]][t[2]] = "active"}) = 2

\* C7: Start() returns the first subscription error at once: no later
\* subscription is attempted and await() is not started; it returns nil only
\* when all four subscriptions were established and await() was launched.
C7_StartFailsFast ==
  \A c \in StartIds :
    /\ \A k \in SubIdx : subs[c][k] # "none" => k <= attempts[c]
    /\ startPc[c] \in {"running", "ok"} =>
         \A k \in SubIdx : k <= attempts[c] => subs[c][k] # "none"
    /\ startPc[c] = "err" =>
         /\ awaitPc[c] = "none"
         /\ \A k \in SubIdx : subs[c][k] # "none" <=> k < attempts[c]
    /\ startPc[c] = "ok" <=> awaitPc[c] # "none"
    /\ startPc[c] = "ok" => attempts[c] = NumSubs

\* A Start() that failed at its third subscription.
C7_Witness ==
  \E c \in StartIds : startPc[c] = "err" /\ attempts[c] = 3

\* The Stop() calls on service i that have returned, and its await() tasks that
\* have received a signal.
StopsReturned(i) == {s \in StopIds : stopInst[s] = i /\ stopPc[s] = "returned"}
StopsCalled(i) == {s \in StopIds : stopInst[s] = i /\ stopPc[s] # "none"}
Signalled(i) == {c \in StartIds : startInst[c] = i /\ awaitPc[c] \in {"unsub", "exited"}}

\* C8: after a successful Start() a call of Stop() eventually returns, and the
\* await() task that took its signal unsubscribes all four subscriptions and
\* exits; no Unsubscribe is called before a stop signal was sent.
C8_StopUnsubscribesAll ==
  /\ [](\A c \in StartIds :
          /\ unsubbed[c] > 0 => awaitPc[c] \in {"unsub", "exited"}
          /\ awaitPc[c] \in {"unsub", "exited"} =>
               Cardinality(Signalled(startInst[c])) <= Cardinality(StopsCalled(startInst[c]))
          /\ awaitPc[c] \in {"none", "waiting"} =>
               \A k \in SubIdx : subs[c][k] = "closed" => connClosed[startInst[c]]
          /\ awaitPc[c] = "exited" =>
               unsubbed[c] = NumSubs /\ \A k \in SubIdx : subs[c][k] = "closed")
  /\ \A s \in StopIds :
       (stopPc[s] = "blocked" /\ Head(sendq[stopInst[s]]) = s
          /\ \E c \in StartIds : startInst[c] = stopInst[s] /\ awaitPc[c] = "waiting")
         ~> (stopPc[s] = "returned")
  /\ \A c \in StartIds :
       (awaitPc[c] = "unsub")
         ~> (awaitPc[c] = "exited" /\ unsubbed[c] = NumSubs
               /\ \A k \in SubIdx : subs[c][k] = "closed")

C8_Witness ==
  \E c \in StartIds, s \in StopIds :
    /\ stopInst[s] = startInst[c] /\ stopPc[s] = "returned"
    /\ awaitPc[c] = "exited" /\ ~connClosed[startInst[c]]

\* C9: a Stop() returns only when an await() task has taken its signal: called
\* with no await() task waiting on the service it stays blocked.
C9_StopBlocksWithoutReceiver ==
  \A i \in Instances :
    /\ Cardinality(StopsReturned(i)) = Cardinality(Signalled(i))
    /\ stopBuf[i] = 0
    /\ (\A c \in StartIds : startInst[c] = i => awaitPc[c] = "none") =>
         \A s \in StopsCalled(i) : stopPc[s] = "blocked"

\* Stop() was called on a service on which Start() was never called.
C9_Witness ==
  \E s \in StopIds :
    /\ stopPc[s] = "blocked"
    /\ \A c \in StartIds : startInst[c] # stopInst[s]

\* C10 as stated: a message delivered to a subscription before the stop signal
\* is not lost when await() unsubscribes: it is handled and answered.
C10_NoInFlightWorkDropped ==
  \A m \in Published : hist[m].beforeStop => hist[m].dropped # "unsubscribe"

\* The callback of subscription <<c, k>> takes its next pending message.
Handler(c, k) == create(c, k) \/ load(c, k) \/ update(c, k) \/ delete(c, k)
\* The repository call of m returned an error.
RepoFailed(m) == hist[m].results # <<>> /\ hist[m].results[1].e.kind # "nil"
RepoSucceeded(m) == hist[m].results # <<>> /\ hist[m].results[1].e.kind = "nil"
\* m was handled and failed: at decode, at validation or in the repository.
Failed(m) == Handled(m) /\ (hist[m].results = <<>> \/ RepoFailed(m))

\* C11: a message that fails (decode, validation, repository error or
\* timeout) does not end its subscription or hold its callback: the
\* subscription stays active unless a stop signal or a connection close ended
\* it, and its next pending message can be taken by the handler.
C11_FailureKeepsSubscription ==
  \A m \in Published :
    Failed(m) =>
      \A t \in hist[m].delivered :
        /\ subs[t[1]][t[2]] = "active"
             \/ connClosed[startInst[t[1]]] \/ awaitPc[t[1]] \in {"unsub", "exited"}
        /\ handling[t[1]][t[2]] # m
        /\ subs[t[1]][t[2]] = "active" /\ handling[t[1]][t[2]] = 0
              /\ pending[t[1]][t[2]] # <<>> => ENABLED Handler(t[1], t[2])

\* A message failed in the repository, and the next message of the same
\* subscription was handled with success and answered.
C11_Witness ==
  \E m, n \in Published :
    /\ m < n /\ hist[m].delivered = hist[n].delivered
    /\ Failed(m) /\ RepoFailed(m)
    /\ Handled(n) /\ RepoSucceeded(n) /\ Len(hist[n].outbox) = 1
    /\ \A t \in hist[n].delivered : subs[t[1]][t[2]] = "active"

\* The name of the action of m in the error codes.
ActionOf(m) ==
  CASE msgs[m].subject = "kiosk.comments.create" -> "create_ticket"
    [] msgs[m].subject = "kiosk.comments.load" -> "read_ticket"
    [] msgs[m].subject = "kiosk.comments.update" -> "update_ticket"
    [] msgs[m].subject = "kiosk.comments.delete" -> "delete_ticket"
\* The storage failure of the action of m: the internal error <action>.failed.
StorageFailure(m) == Error("internal", ActionOf(m) \o ".failed")
\* The callback of m made its one Respond call and returned.
Answered(m) == m \in Published /\ Handled(m) /\ Len(hist[m].responds) = 1

\* C12 as stated: every invocation that reaches its repository call
\* eventually publishes a reply.
C12_AlwaysPublishesReply ==
  \A m \in MsgIds : InFlight(m) ~> (Answered(m) /\ Len(hist[m].outbox) = 1)

\* C12 amended: every invocation that reaches its repository call eventually
\* makes its one Respond call and returns, none waits forever; a call whose
\* deadline passed before the repository answered fails as a storage failure
\* and is answered with the internal error <action>.failed.  The reply is
\* published when the message carries a reply subject and the connection is
\* open.
C12_RepositoryCallBounded ==
  /\ [](\A m \in Published :
          /\ hist[m].timedOut => "repo" \in Range(hist[m].steps)
          /\ hist[m].timedOut /\ Handled(m) =>
               /\ hist[m].results = <<[c |-> Nil, e |-> StorageFailure(m)]>>
               /\ hist[m].responds = <<Marshal(StorageFailure(m))>>
               /\ msgs[m].reply /\ ConnOpenFor(m) => hist[m].outbox = hist[m].responds)
  /\ \A m \in MsgIds :
       InFlight(m) ~> (Answered(m) /\ (msgs[m].reply /\ ConnOpenFor(m) => Len(hist[m].outbox) = 1))

\* An invocation whose deadline passed was answered with <action>.failed, and
\* the reply was published.
C12_Witness ==
  \E m \in Published :
    /\ hist[m].timedOut /\ Handled(m)
    /\ hist[m].outbox = <<Marshal(StorageFailure(m))>>

\* The payloads a success can carry: zero bytes, or an encoded entity.
SuccessPayloads == {EmptyBytes} \cup {Marshal(LoadFromComment(r.obj)) : r \in
                     {d \in Payloads("kiosk.comments.load") : d.json}}

\* C13: an error returned by the repository is the reply: not found is
\* answered with the not-found error <action>.not_found, a storage or
\* connectivity failure with the internal error <action>.failed, and neither
\* is answered with a success payload.
C13_RepositoryOutcomeMapped ==
  \A m \in Published :
    Handled(m) /\ RepoFailed(m) =>
      LET e == hist[m].results[1].e IN
      /\ Len(hist[m].results) = 1
      /\ hist[m].responds = <<Marshal(e)>>
      /\ e.type \in {"not_found", "internal"}
      /\ e.type = "not_found" => e.code = ActionOf(m) \o ".not_found"
      /\ e.type = "internal" => e.code = ActionOf(m) \o ".failed"
      /\ hist[m].responds[1] \notin SuccessPayloads
      /\ msgs[m].reply /\ ConnOpenFor(m) => hist[m].outbox = <<Marshal(e)>>

\* A load answered with read_ticket.not_found and an update answered with
\* update_ticket.failed.
C13_Witness ==
  \E m, n \in Published :
    /\ Handled(m) /\ RepoFailed(m) /\ Handled(n) /\ RepoFailed(n)
    /\ hist[m].outbox = <<Marshal(Error("not_found", "read_ticket.not_found"))>>
    /\ hist[n].outbox = <<Marshal(Error("internal", "update_ticket.failed"))>>

\* The rules of creation in their order, and the rules a ticket violates.
CreateCodes ==
  <<"create_ticket.empty_issuer", "create_ticket.empty_owner", "create_ticket.empty_subject",
    "create_ticket.empty_content", "create_ticket.invalid_status">>
OnlyWhitespace(text) == \A j \in 1..Len(text) : text[j] \in {Space, Tab}
Violations(t) ==
  {j \in 1..Len(CreateCodes) :
     \/ j = 1 /\ Len(t.issuer) = 0
     \/ j = 2 /\ Len(t.owner) = 0
     \/ j = 3 /\ OnlyWhitespace(t.subject)
     \/ j = 4 /\ OnlyWhitespace(t.content)
     \/ j = 5 /\ t.status # "NEW"}
Least(S) == CHOOSE x \in S : \A y \in S : x <= y

\* C14: a create-ticket request that violates one or more rules is refused
\* with the invalid-argument code of the first violated rule in the order
\* issuer, owner, subject, content, status (whitespace-only subject or content
\* counts as empty, status RESOLVED is create_ticket.invalid_status); issuer
\* and owner both empty gives create_ticket.empty_issuer.
C14_FirstViolatedRuleWins ==
  last.op = "Create" =>
    LET V == Violations(last.req) IN
    /\ V # {} => /\ last.res = Error("invalid_argument", CreateCodes[Least(V)])
                 /\ ~last.repo
    /\ V = {} => last.repo
    /\ Len(last.req.issuer) = 0 /\ Len(last.req.owner) = 0 =>
         last.res.code = "create_ticket.empty_issuer"

\* A request with issuer and owner empty, a whitespace-only subject and the
\* status RESOLVED was refused.
C14_Witness ==
  /\ last.op = "Create" /\ last.res.kind = "error"
  /\ last.req.issuer = <<>> /\ last.req.owner = <<>>
  /\ last.req.subject = <<Space>> /\ last.req.status = "RESOLVED"

\* C15: update checks run in a fixed order: an identifier that is not positive
\* gives update_ticket.invalid_id whatever the status; otherwise a disallowed
\* status gives update_ticket.invalid_ticket_status even when the ticket does
\* not exist; only a request passing both reaches the repository, where a
\* missing row gives update_ticket.not_found, a not-found error and not an
\* invalid-argument error.
C15_UpdateChecksInOrder ==
  last.op = "Update" =>
    LET t == last.req
        missing == t.id \notin 1..Len(tickets)
    IN /\ t.id <= 0 =>
            /\ last.res = Error("invalid_argument", "update_ticket.invalid_id")
            /\ ~last.repo
       /\ t.id > 0 /\ t.status # "RESOLVED" =>
            /\ last.res = Error("invalid_argument", "update_ticket.invalid_ticket_status")
            /\ ~last.repo
       /\ t.id > 0 /\ t.status = "RESOLVED" =>
            /\ last.repo
            /\ missing => last.res \in {Error("not_found", "update_ticket.not_found"),
                                        Error("internal", "update_ticket.failed")}
            /\ ~missing => last.res # Error("not_found", "update_ticket.not_found")
       /\ last.res.kind = "error" /\ last.res.type = "invalid_argument" => ~last.repo

\* An update of a ticket that does not exist to the status NEW was refused for
\* its status.
C15_Witness ==
  /\ last.op = "Update" /\ last.req.id > Len(tickets) /\ last.req.status = "NEW"
  /\ last.res = Error("invalid_argument", "update_ticket.invalid_ticket_status")

\* The last call was a Read that returned a ticket.
ReadTicket == last.op = "Read" /\ last.res.kind = "ticket"

\* C16: a Read of an identifier assigned by a successful Create returns the
\* issuer, owner, subject, content, metadata and importance level that were
\* submitted, and the submitted status while the ticket was not updated; a
\* ticket for which no comment was stored has zero comments; issued-at and
\* updated-at are not later than the time of the read.
C16_CreateReadRoundTrip ==
  /\ Len(submitted) = Len(tickets)
  /\ ReadTicket =>
       LET id == last.req.id
           t == submitted[id]
           r == last.res
       IN /\ r.id = id
          /\ r.issuer = t.issuer /\ r.owner = t.owner
          /\ r.subject = t.subject /\ r.content = t.content
          /\ r.metadata = t.metadata /\ r.importance = t.importance
          /\ r.updatedAt = r.issuedAt => r.status = t.status
          /\ Len(r.comments) = Cardinality({j \in 1..Len(comments) : comments[j].ticket_id = id})
          /\ r.issuedAt <= now /\ r.updatedAt <= now

\* A fresh ticket with metadata was read back.
C16_Witness ==
  /\ ReadTicket
  /\ last.res.metadata = Meta /\ last.res.importance = "HIGH" /\ last.res.status = "NEW"
  /\ last.res.comments = <<>> /\ last.res.issuedAt < now

\* C17: a successful update of an existing ticket sets its status and makes
\* its updated-at strictly greater than it was, and a later Read shows both;
\* no step makes the updated-at of a ticket smaller.
C17_UpdateMonotonic ==
  /\ [][/\ Len(tickets') >= Len(tickets)
        /\ \A id \in 1..Len(tickets) :
             /\ tickets'[id].updatedAt >= tickets[id].updatedAt
             /\ tickets'[id].issuedAt = tickets[id].issuedAt]_vars
  /\ [][now' # now /\ last'.op = "Update" /\ last'.res.kind = "nil" =>
          /\ last'.req.id \in 1..Len(tickets)
          /\ tickets'[last'.req.id].status = last'.req.status
          /\ tickets'[last'.req.id].updatedAt > tickets[last'.req.id].updatedAt]_vars
  /\ [](ReadTicket =>
          /\ last.res.status = tickets[last.req.id].status
          /\ last.res.updatedAt = tickets[last.req.id].updatedAt
          /\ last.res.updatedAt >= last.res.issuedAt)

\* A ticket created with the status NEW was updated and read back as RESOLVED
\* with an updated-at later than its issued-at.
C17_Witness ==
  /\ ReadTicket
  /\ submitted[last.req.id].status = "NEW" /\ last.res.status = "RESOLVED"
  /\ last.res.updatedAt > last.res.issuedAt

\* The subscriptions Start() call c has made.
Bound(c) == {k \in SubIdx : subs[c][k] # "none"}

\* C18: the subjects kiosk.comments.create, .load, .update and .delete are
\* pairwise distinct and each is bound to one handler of its own with a
\* queue-group name of its own; after a Start() that returned nil each subject
\* has exactly one subscription of that call, and a message is handed only to
\* a subscription of its subject.
C18_SubjectsDistinct ==
  /\ \A j, k \in SubIdx :
       j # k => /\ Bindings[j].subject # Bindings[k].subject
                /\ Bindings[j].cb # Bindings[k].cb
                /\ Bindings[j].queue # Bindings[k].queue
  /\ {Bindings[k].subject : k \in SubIdx} =
       {"kiosk.comments.create", "kiosk.comments.load",
        "kiosk.comments.update", "kiosk.comments.delete"}
  /\ \A k \in SubIdx :
       /\ Bindings[k].subject = "kiosk.comments." \o Bindings[k].cb
       /\ Bindings[k].queue = Bindings[k].subject \o "_group"
  /\ \A c \in StartIds :
       startPc[c] = "ok" =>
         \A subject \in Subjects :
           Cardinality({k \in Bound(c) : Bindings[k].subject = subject}) = 1
  /\ \A m \in Published :
       \A t \in hist[m].delivered : Bindings[t[2]].subject = msgs[m].subject

\* After a Start() that returned nil, messages on two subjects were handed to
\* two subscriptions of that call.
C18_Witness ==
  \E c \in StartIds, m, n \in Published :
    /\ startPc[c] = "ok" /\ msgs[m].subject # msgs[n].subject
    /\ \E j, k \in SubIdx : j # k /\ hist[m].delivered = {<<c, j>>}
                                   /\ hist[n].delivered = {<<c, k>>}

\* The step sequences of a complete handling of m: load and delete have no
\* validate step.
Handlings(m) ==
  IF IsIdRequest(m)
    THEN {<<"decode", "respond">>, <<"decode", "repo", "respond">>}
    ELSE {<<"decode", "respond">>, <<"decode", "validate", "respond">>,
          <<"decode", "validate", "repo", "respond">>}
IsPrefix(p, q) == Len(p) <= Len(q) /\ SubSeq(q, 1, Len(p)) = p

\* C19: the steps of the handling of one message occur in the order decode,
\* validate, repository call, reply; the repository is called at most once
\* for a message, also after a failure or a timeout of the call (no retry).
C19_StepsInOrderNoRetry ==
  \A m \in Published :
    /\ \E q \in Handlings(m) : IsPrefix(hist[m].steps, q)
    /\ Handled(m) => hist[m].steps \in Handlings(m)
    /\ Count(hist[m].steps, "repo") <= 1
    /\ Len(hist[m].results) <= Count(hist[m].steps, "repo")
    /\ InFlight(m) <=> hist[m].steps # <<>> /\ hist[m].steps[Len(hist[m].steps)] = "repo"
    /\ Handled(m) /\ (RepoFailed(m) \/ hist[m].timedOut) =>
         Count(hist[m].steps, "repo") = 1 /\ Len(hist[m].results) = 1

\* An update whose repository call failed, and one whose call timed out, were
\* answered after one call each.
C19_Witness ==
  \E m, n \in Published :
    /\ m # n /\ Handled(m) /\ Handled(n)
    /\ RepoFailed(m) /\ ~hist[m].timedOut /\ hist[n].timedOut
    /\ hist[m].steps = <<"decode", "validate", "repo", "respond">>
    /\ hist[n].steps = <<"decode", "validate", "repo", "respond">>

\* The callbacks other than that of <<c, k>> keep their contexts and calls.
OthersKeep(c, k) ==
  \A d \in StartIds, j \in SubIdx :
    <<d, j>> # <<c, k>> => ctx'[d][j] = ctx[d][j] /\ handling'[d][j] = handling[d][j]

\* C20: a deadline belongs to one invocation: a callback has a context exactly
\* while it is in its repository call, live from the start of that call
\* whatever the state of the others; the expiry of a context, and its release
\* when the callback returns, leave every other callback's context and call
\* as they were; a call is failed by the deadline only when its own has passed.
C20_DeadlinePerInvocation ==
  /\ [](\A c \in StartIds, k \in SubIdx :
          /\ ctx[c][k] = "none" <=> handling[c][k] = 0
          /\ handling[c][k] # 0 =>
               (ctx[c][k] = "expired" <=> hist[handling[c][k]].timedOut))
  /\ [][\A c \in StartIds, k \in SubIdx :
          /\ ctx[c][k] = "live" /\ ctx'[c][k] = "expired" => OthersKeep(c, k)
          /\ ctx[c][k] # "none" /\ ctx'[c][k] = "none" => OthersKeep(c, k)
          /\ ctx[c][k] = "none" /\ ctx'[c][k] # "none" =>
               ctx'[c][k] = "live" /\ OthersKeep(c, k)
          /\ ctx[c][k] = "expired" => ctx'[c][k] \in {"expired", "none"}]_vars

\* Two callbacks are in their repository calls: the deadline of one has
\* passed, that of the other has not.
C20_Witness ==
  \E c, d \in StartIds, k, j \in SubIdx :
    /\ <<c, k>> # <<d, j>>
    /\ ctx[c][k] = "expired" /\ ctx[d][j] = "live"
    /\ handling[c][k] # 0 /\ handling[d][j] # 0

\* The reply the code makes for m: from the request of m alone up to the
\* repository call, and from what the repository returned to the call of m.
OutcomeOf(m) ==
  IF ~msgs[m].data.json THEN Marshal(InvalidRequestBody)
  ELSE IF ~IsIdRequest(m) /\ Validation(m).kind # "nil" THEN Marshal(Validation(m))
  ELSE IF RepoFailed(m) THEN Marshal(hist[m].results[1].e)
  ELSE IF IsLoad(m) THEN Marshal(LoadFromComment(hist[m].results[1].c))
  ELSE EmptyBytes

\* C21: under any interleaving of the callbacks, every reply published on the
\* reply subject of a message is the data of a Respond call made for that
\* message, and that data is the outcome of the message's own request: its
\* own decode or validation error, the error its own repository call
\* returned, under the name of its own action, or the entity of its own
\* identifier; a message whose callback has not responded has no reply.
C21_ReplyMatchesRequest ==
  \A m \in Published :
    /\ IsPrefix(hist[m].outbox, hist[m].responds)
    /\ InFlight(m) \/ hist[m].steps = <<>> => hist[m].outbox = <<>>
    /\ Handled(m) =>
         /\ hist[m].responds = <<OutcomeOf(m)>>
         /\ RepoFailed(m) => hist[m].results[1].e = StorageFailure(m)
                               \/ hist[m].results[1].e = Error("not_found", ActionOf(m) \o ".not_found")
         /\ IsLoad(m) /\ RepoSucceeded(m) =>
              hist[m].results[1].c.id = msgs[m].data.obj.id

\* A load and a message of another subject were in their repository calls at
\* the same time, and each was answered on its own reply subject with its own
\* outcome: the load with the entity of its identifier.
C21_Witness ==
  \E m, n \in Published :
    /\ m # n /\ Handled(m) /\ Handled(n) /\ hist[m].concurrent
    /\ IsLoad(m) /\ RepoSucceeded(m) /\ ~IsLoad(n) /\ "repo" \in Range(hist[n].steps)
    /\ hist[m].outbox = <<Marshal(LoadFromComment([id |-> msgs[m].data.obj.id]))>>
    /\ hist[n].outbox = <<OutcomeOf(n)>> /\ hist[n].outbox # hist[m].outbox

\* The Start() calls on service i that returned nil.
Started(i) == {c \in StartIds : startInst[c] = i /\ startPc[c] = "ok"}

Waiting(i) == {c \in StartIds : startInst[c] = i /\ awaitPc[c] = "waiting"}
StopsBlocked(i) == {s \in StopIds : stopInst[s] = i /\ stopPc[s] = "blocked"}
Min(a, b) == IF a <= b THEN a ELSE b

\* C23: each stop signal is taken by exactly one await() task: with k Start()
\* calls that returned nil and j Stop() calls on a service, the Stop() calls
\* that returned are as many as the tasks that took a signal, at most
\* min(j, k), and exactly min(j, k) once no Stop() is blocked or no task
\* waits; each such task unsubscribes its own four subscriptions and no
\* other; at least j - k Stop() calls stay blocked; at least k - j tasks keep
\* waiting, their subscriptions not unsubscribed and, on an open connection,
\* active.  One step hands one signal from one Stop() to one task.
C23_OneSignalOneTask ==
  /\ [](\A i \in Instances :
          LET k == Cardinality(Started(i))
              j == Cardinality(StopsCalled(i))
              r == Cardinality(StopsReturned(i))
          IN /\ r = Cardinality(Signalled(i))
             /\ r <= Min(j, k)
             /\ StopsBlocked(i) = {} \/ Waiting(i) = {} => r = Min(j, k)
             /\ Cardinality(StopsBlocked(i)) = j - r
             /\ Cardinality(StopsBlocked(i)) >= j - k
             /\ Cardinality(Waiting(i)) = k - r
             /\ Cardinality(Waiting(i)) >= k - j
             /\ \A c \in Waiting(i) :
                  /\ unsubbed[c] = 0
                  /\ ~connClosed[i] => \A n \in SubIdx : subs[c][n] = "active"
             /\ \A c \in Signalled(i) :
                  /\ \A n \in SubIdx : n <= unsubbed[c] => subs[c][n] = "closed"
                  /\ awaitPc[c] = "exited" => unsubbed[c] = NumSubs)
  /\ [][\A i \in Instances :
          /\ Signalled(i) \subseteq Signalled(i)'
          /\ Cardinality(Signalled(i)') <= Cardinality(Signalled(i)) + 1
          /\ Cardinality(StopsReturned(i)') - Cardinality(StopsReturned(i))
               = Cardinality(Signalled(i)') - Cardinality(Signalled(i))]_vars
  /\ [][\A c \in StartIds, n \in SubIdx :
          subs[c][n] = "active" /\ subs'[c][n] = "closed" /\ ~connClosed'[startInst[c]] =>
            awaitPc[c] = "unsub" /\ unsubbed'[c] = n /\ unsubbed[c] = n - 1]_vars

\* Two Start() calls and one Stop() call on one service: the Stop() returned,
\* one await() task unsubscribed its four subscriptions and exited, the other
\* still waits with its four subscriptions active.
C23_Witness ==
  \E c, d \in StartIds, s \in StopIds :
    /\ c # d /\ startInst[c] = startInst[d] /\ stopInst[s] = startInst[c]
    /\ stopPc[s] = "returned"
    /\ awaitPc[c] = "exited" /\ \A n \in SubIdx : subs[c][n] = "closed"
    /\ awaitPc[d] = "waiting" /\ \A n \in SubIdx : subs[d][n] = "active"

\* C24: a subscription await() has unsubscribed is closed and holds no pending
\* message; no message published after that is handed to it, nothing is added
\* to its pending list and its callback is not called again; a repository
\* call is started only for a message handed to a subscription that is still
\* active, so a message published when every subscription of its subject has
\* ended is never decoded and never reaches the repository.
C24_NoDispatchAfterUnsubscribe ==
  /\ [](\A c \in StartIds, n \in SubIdx :
          n <= unsubbed[c] => subs[c][n] = "closed" /\ pending[c][n] = <<>>)
  /\ [](\A m \in Published :
          hist[m].delivered = {} => hist[m].steps = <<>> /\ hist[m].results = <<>>)
  /\ [][\A c \in StartIds, n \in SubIdx :
          n <= unsubbed[c] =>
            /\ pending'[c][n] = <<>>
            /\ handling'[c][n] \in {0, handling[c][n]}
            /\ msgs' # msgs => <<c, n>> \notin hist'[Len(msgs')].delivered]_vars
  /\ [][\A m \in Published :
          Count(hist'[m].steps, "repo") > Count(hist[m].steps, "repo") =>
            \E t \in hist[m].delivered :
              subs[t[1]][t[2]] = "active" /\ unsubbed[t[1]] < t[2]]_vars

\* After a stop completed on an open connection, a message was published on a
\* subject of the unsubscribed subscriptions: it was handed to nobody, and no
\* callback ran for it.
C24_Witness ==
  \E c \in StartIds, m \in Published :
    /\ awaitPc[c] = "exited" /\ \A i \in Instances : ~connClosed[i]
    /\ \A n \in SubIdx : subs[c][n] = "closed"
    /\ hist[m].delivered = {} /\ hist[m].steps = <<>>
    /\ \A d \in StartIds, n \in SubIdx : handling[d][n] = 0

\* The steps of the complete handling of the request of m.
StepsOf(m) ==
  IF ~msgs[m].data.json THEN <<"decode", "respond">>
  ELSE IF IsIdRequest(m) THEN <<"decode", "repo", "respond">>
  ELSE IF Validation(m).kind # "nil" THEN <<"decode", "validate", "respond">>
  ELSE <<"decode", "validate", "repo", "respond">>
\* m was taken from the pending list of a subscription.
Taken(m) ==
  /\ hist[m].delivered # {} /\ hist[m].dropped = "no"
  /\ \A t \in hist[m].delivered : m \notin Range(pending[t[1]][t[2]])

\* C25: a message without a reply subject is handled like any other: once
\* taken by its callback it is decoded, validated and passed to the
\* repository, through the same steps as its request takes with a reply
\* subject, and Respond is called once with its outcome; nothing is published
\* for it; the failure of Respond is discarded: the callback returns, the
\* subscription stays active unless a stop signal or a connection close ended
\* it, and takes its next pending message.
C25_NoReplySubjectStillProcessed ==
  \A m \in Published :
    ~msgs[m].reply =>
      /\ hist[m].outbox = <<>>
      /\ Taken(m) => InFlight(m) \/ Handled(m)
      /\ InFlight(m) => IsPrefix(hist[m].steps, StepsOf(m)) /\ hist[m].responds = <<>>
      /\ Handled(m) =>
           /\ hist[m].steps = StepsOf(m)
           /\ hist[m].responds = <<OutcomeOf(m)>>
           /\ Len(hist[m].results) = Count(StepsOf(m), "repo")
           /\ \A t \in hist[m].delivered :
                /\ subs[t[1]][t[2]] = "active"
                     \/ connClosed[startInst[t[1]]] \/ awaitPc[t[1]] \in {"unsub", "exited"}
                /\ subs[t[1]][t[2]] = "active" /\ handling[t[1]][t[2]] = 0
                      /\ pending[t[1]][t[2]] # <<>> => ENABLED Handler(t[1], t[2])

\* A create without a reply subject was inserted and nothing was published for
\* it, and the next message of the same subscription was handled and answered.
C25_Witness ==
  \E m, n \in Published :
    /\ m < n /\ ~msgs[m].reply /\ msgs[m].subject = "kiosk.comments.create"
    /\ Handled(m) /\ RepoSucceeded(m)
    /\ hist[m].responds = <<EmptyBytes>> /\ hist[m].outbox = <<>>
    /\ hist[n].delivered = hist[m].delivered
    /\ Handled(n) /\ Len(hist[n].outbox) = 1
    /\ \A t \in hist[m].delivered : subs[t[1]][t[2]] = "active"
====
